---- MODULE Spec2Model ----
(***************************************************************************)
(* AI_Readiness.py: the incremental capacity search of AIInfrastuctureTwin *)
(* (run_stress_test) over the fixed branch built by _build_network.  The   *)
(* power-flow solver pp.runpp is an external collaborator: each call       *)
(* either converges with a (transformer loading, bus voltage) reading or   *)
(* raises LoadflowNotConverged.                                            *)
(***************************************************************************)
EXTENDS Integers, Sequences, FiniteSets, TLC

(***************************************************************************)
(* IEEE-754 binary64 arithmetic on non-negative finite values, as CPython  *)
(* floats compute it.  TLC integers are 32 bits wide, so a 53-bit          *)
(* significand is held as a little-endian sequence of 15-bit limbs.        *)
(***************************************************************************)
LimbBits == 15
LimbBase == 2^LimbBits
MantBits == 53

RECURSIVE BigTrim(_)
BigTrim(a) ==
  IF a = <<>> THEN <<>>
  ELSE IF a[Len(a)] = 0 THEN BigTrim(SubSeq(a, 1, Len(a) - 1)) ELSE a

RECURSIVE BigFromInt(_)
BigFromInt(n) ==
  IF n = 0 THEN <<>> ELSE <<n % LimbBase>> \o BigFromInt(n \div LimbBase)

RECURSIVE BigAddC(_, _, _)
BigAddC(a, b, c) ==
  IF a = <<>> /\ b = <<>> THEN (IF c = 0 THEN <<>> ELSE <<c>>)
  ELSE LET x == IF a = <<>> THEN 0 ELSE Head(a)
           y == IF b = <<>> THEN 0 ELSE Head(b)
           s == x + y + c
       IN  <<s % LimbBase>> \o BigAddC(IF a = <<>> THEN <<>> ELSE Tail(a),
                                       IF b = <<>> THEN <<>> ELSE Tail(b),
                                       s \div LimbBase)

BigAdd(a, b) == BigAddC(a, b, 0)

RECURSIVE BigMulC(_, _, _)
BigMulC(a, k, c) ==
  IF a = <<>> THEN (IF c = 0 THEN <<>> ELSE <<c>>)
  ELSE LET p == Head(a) * k + c
       IN  <<p % LimbBase>> \o BigMulC(Tail(a), k, p \div LimbBase)

BigMulSmall(a, k) == IF k = 0 THEN <<>> ELSE BigMulC(a, k, 0)

RECURSIVE BigMul(_, _)
BigMul(a, b) ==
  IF a = <<>> \/ b = <<>> THEN <<>>
  ELSE BigAdd(BigMulSmall(a, Head(b)),
              LET hi == BigMul(a, Tail(b)) IN IF hi = <<>> THEN <<>> ELSE <<0>> \o hi)

RECURSIVE BigDivR(_, _, _)
BigDivR(a, k, r) ==
  IF a = <<>> THEN [q |-> <<>>, r |-> r]
  ELSE LET n    == Len(a)
           cur  == r * LimbBase + a[n]
           rest == BigDivR(SubSeq(a, 1, n - 1), k, cur % k)
       IN  [q |-> Append(rest.q, cur \div k), r |-> rest.r]

BigDivSmall(a, k) == LET d == BigDivR(a, k, 0) IN [q |-> BigTrim(d.q), r |-> d.r]

BitLen(x) == CHOOSE n \in 0..LimbBits : x < 2^n /\ (n = 0 \/ 2^(n - 1) <= x)

BigBitLen(a) == IF a = <<>> THEN 0 ELSE LimbBits * (Len(a) - 1) + BitLen(a[Len(a)])

BigShl(a, s) ==
  IF a = <<>> THEN <<>>
  ELSE [i \in 1..(s \div LimbBits) |-> 0] \o BigMulSmall(a, 2^(s % LimbBits))

BigShr(a, s) ==
  LET w    == s \div LimbBits
      keep == IF w >= Len(a) THEN <<>> ELSE SubSeq(a, w + 1, Len(a))
      d    == BigDivSmall(keep, 2^(s % LimbBits))
  IN  [q |-> d.q,
       sticky |-> d.r # 0 \/ \E i \in 1..Len(a) : i <= w /\ a[i] # 0]

BigIsOdd(a) == a # <<>> /\ a[1] % 2 = 1

BigLess(a, b) ==
  IF Len(a) # Len(b) THEN Len(a) < Len(b)
  ELSE \E i \in 1..Len(a) :
          a[i] < b[i] /\ \A j \in (i + 1)..Len(a) : a[j] = b[j]

\* A float is [m, e] with value m * 2^e, m = <<>> for 0.0 and otherwise
\* 2^52 <= m < 2^53, so equal values have equal representations.
FZero == [m |-> <<>>, e |-> 0]

\* Bits of m * 2^e lost by rounding to 53 bits (none when it is representable).
FInexact(m) ==
  LET n == BigBitLen(m) IN n > MantBits /\ BigShr(m, n - MantBits).sticky

\* Round m * 2^e (plus a non-zero tail below it when sticky) to nearest, ties to even.
FRound(m, e, sticky) ==
  LET n == BigBitLen(m) IN
  IF n = 0 THEN FZero
  ELSE IF n <= MantBits THEN [m |-> BigShl(m, MantBits - n), e |-> e - (MantBits - n)]
  ELSE LET s     == n - MantBits
           hi    == BigShr(m, s - 1)
           guard == BigIsOdd(hi.q)
           q     == BigShr(hi.q, 1).q
           up    == guard /\ (hi.sticky \/ sticky \/ BigIsOdd(q))
           q1    == IF up THEN BigAdd(q, <<1>>) ELSE q
       IN  IF BigBitLen(q1) > MantBits
           THEN [m |-> BigShr(q1, 1).q, e |-> e + s + 1]
           ELSE [m |-> q1, e |-> e + s]

FromInt(n) == FRound(BigFromInt(n), 0, FALSE)

\* The exact sum x + y as an unrounded pair.
FSumExact(x, y) ==
  LET e0 == IF x.e < y.e THEN x.e ELSE y.e
  IN  [m |-> BigAdd(BigShl(x.m, x.e - e0), BigShl(y.m, y.e - e0)), e |-> e0]

FAdd(x, y) ==
  IF x.m = <<>> THEN y
  ELSE IF y.m = <<>> THEN x
  ELSE LET s == FSumExact(x, y) IN FRound(s.m, s.e, FALSE)

FMul(x, y) == FRound(BigMul(x.m, y.m), x.e + y.e, FALSE)

DivGuardBits == 75
\* x / k for a float x and a float k whose value is the small integer k.
FDivSmall(x, k) ==
  LET d == BigDivSmall(BigShl(x.m, DivGuardBits), k)
  IN  FRound(d.q, x.e - DivGuardBits, d.r # 0)

FLeq(x, y) ==
  IF x.m = <<>> THEN TRUE
  ELSE IF y.m = <<>> THEN FALSE
  ELSE x.e < y.e \/ (x.e = y.e /\ ~BigLess(y.m, x.m))

FLess(x, y) == ~FLeq(y, x)

(***************************************************************************)
(* Configuration and constants (lines 24-31) and the literals of the loop. *)
(***************************************************************************)
GRID_VOLTAGE_KV == FDivSmall(FromInt(138), 10)
MAIN_VOLTAGE_KV == FDivSmall(FromInt(48), 100)
TRAFO_RATING_MVA == FDivSmall(FromInt(25), 10)
CRITICAL_VOLTAGE_LIMIT_PU == FDivSmall(FromInt(95), 100)
CRITICAL_LOADING_PERCENT == FromInt(98)
STEP_SIZE_KW == FromInt(20)
MAX_SIMULATION_MW_High == FromInt(6)
MAX_SIMULATION_MW == FromInt(5)
KW_PER_MW == FromInt(1000)
Q_PER_P == FDivSmall(FromInt(329), 1000)

\* step_mw = STEP_SIZE_KW / 1000.0
step_mw_Half == FDivSmall(FromInt(10), 1000)
step_mw == FDivSmall(STEP_SIZE_KW, 1000)

(***************************************************************************)
(* The network built by _build_network: everything but the load's p_mw and *)
(* q_mvar is fixed.                                                        *)
(***************************************************************************)
BuildNetwork ==
  [bus      |-> <<[vn_kv |-> GRID_VOLTAGE_KV, name |-> "Utility Grid"],
                  [vn_kv |-> MAIN_VOLTAGE_KV, name |-> "Main Switchboard"],
                  [vn_kv |-> MAIN_VOLTAGE_KV, name |-> "AI High-Density Hall"]>>,
   ext_grid |-> [bus |-> 1, vm_pu |-> FromInt(1), name |-> "Grid Feed"],
   trafo    |-> [hv_bus |-> 1, lv_bus |-> 2, sn_mva |-> TRAFO_RATING_MVA,
                 vn_hv_kv |-> GRID_VOLTAGE_KV, vn_lv_kv |-> MAIN_VOLTAGE_KV,
                 vkr_percent |-> FromInt(1), vk_percent |-> FromInt(6),
                 pfe_kw |-> FromInt(5), i0_percent |-> FDivSmall(FromInt(1), 10),
                 name |-> "Main Transformer T-1"],
   line     |-> [from_bus |-> 2, to_bus |-> 3,
                 length_km |-> FDivSmall(FromInt(5), 100),
                 r_ohm_per_km |-> FDivSmall(FromInt(6), 100),
                 x_ohm_per_km |-> FDivSmall(FromInt(3), 100),
                 c_nf_per_km |-> FromInt(10),
                 max_i_ka |-> FDivSmall(FromInt(35), 10),
                 name |-> "Feeder Busway"],
   load     |-> [bus |-> 3, p_mw |-> FZero, q_mvar |-> FZero,
                 name |-> "NVIDIA H100 Cluster"]]

(***************************************************************************)
(* The solver's readings.  A run's solver returns one fixed reading while  *)
(* the branch is within its limits (the profile) and may at any step       *)
(* return a reading at or beyond a limit, or fail to converge.             *)
(***************************************************************************)
Reading(l, v) == [loading_percent |-> l, vm_pu |-> v]

SafeReadings ==
  { Reading(FDivSmall(FromInt(1), 10), FromInt(1)),
    Reading(FDivSmall(FromInt(979), 10), FDivSmall(FromInt(96), 100)) }

LimitLoadings == { FromInt(98), FromInt(99) }
LimitVoltages == { FDivSmall(FromInt(95), 100), FDivSmall(FromInt(94), 100) }

Readings(p) ==
  { Reading(l, v) : l \in {p.loading_percent} \cup LimitLoadings,
                    v \in {p.vm_pu} \cup LimitVoltages }

VARIABLES
  pc,               \* position in run_stress_test
  net,              \* self.net
  res,              \* self.net.res_trafo / res_bus: <<>> before the first runpp
  results_log,      \* self.results_log
  current_load_mw,  \* locals of run_stress_test (placeholders until assigned)
  is_safe,
  trafo_loading,
  voltage_pu,
  retval,           \* the tuple of values run_stress_test returned, <<>> before
  state,            \* the state of the search: Searching or how it stopped
  profile,          \* the solver's within-limits reading for this run
  n_runpp,          \* number of pp.runpp calls so far in this call
  n_converged,      \* number of them that converged
  n_setload,        \* number of load updates (lines 81-82) so far in this call
  calls             \* number of run_stress_test calls on this instance

vars == <<pc, net, res, results_log, current_load_mw, is_safe, trafo_loading,
          voltage_pu, retval, state, profile, n_runpp, n_converged, n_setload,
          calls>>

TerminalStates == {"StoppedAtOverload", "StoppedAtUndervoltage",
                   "StoppedAtDivergence", "StoppedAtSimulationCeiling"}

\* __init__ followed by nothing else: a fresh instance.
Init ==
  /\ pc = "idle"
  /\ net = BuildNetwork
  /\ res = <<>>
  /\ results_log = <<>>
  /\ current_load_mw = FZero
  /\ is_safe = TRUE
  /\ trafo_loading = FZero
  /\ voltage_pu = FZero
  /\ retval = <<>>
  /\ state = "NotStarted"
  /\ profile \in SafeReadings
  /\ n_runpp = 0
  /\ n_converged = 0
  /\ n_setload = 0
  /\ calls = 0

\* Lines 75-77.
Call ==
  /\ pc = "idle"
  /\ current_load_mw' = FZero
  /\ is_safe' = TRUE
  /\ state' = "Searching"
  /\ pc' = "while"
  /\ calls' = calls + 1
  /\ UNCHANGED <<net, res, results_log, trafo_loading, voltage_pu, retval,
                 profile, n_runpp, n_converged, n_setload>>

\* Line 79: while is_safe and current_load_mw <= MAX_SIMULATION_MW
LoopCondNoCeiling(safe, load) == safe
LoopCondIgnoreSafe(safe, load) == FLeq(load, MAX_SIMULATION_MW)
LoopCond(safe, load) == safe /\ FLeq(load, MAX_SIMULATION_MW)

\* How the search stopped when the loop condition fails.
StateAtExit(safe, st) == IF safe THEN "StoppedAtSimulationCeiling" ELSE st

LoopTest ==
  /\ pc = "while"
  /\ IF LoopCond(is_safe, current_load_mw)
       THEN pc' = "update" /\ state' = state
       ELSE pc' = "return" /\ state' = StateAtExit(is_safe, state)
  /\ UNCHANGED <<net, res, results_log, current_load_mw, is_safe,
                 trafo_loading, voltage_pu, retval, profile, n_runpp, n_converged,
                 n_setload, calls>>

\* Lines 81-82.
SetLoadKeepsP(n, p) ==
  [n EXCEPT !.load.q_mvar = FMul(p, Q_PER_P)]
SetLoadStaleQ(n, p) ==
  [n EXCEPT !.load.p_mw = p, !.load.q_mvar = FMul(n.load.p_mw, Q_PER_P)]
SetLoadDeratesTrafo(n, p) ==
  [n EXCEPT !.load.p_mw = p, !.load.q_mvar = FMul(p, Q_PER_P),
            !.trafo.sn_mva = FromInt(2)]
SetLoad(n, p) ==
  [n EXCEPT !.load.p_mw = p, !.load.q_mvar = FMul(p, Q_PER_P)]

UpdateLoad ==
  /\ pc = "update"
  /\ net' = SetLoad(net, current_load_mw)
  /\ n_setload' = n_setload + 1
  /\ pc' = "runpp"
  /\ UNCHANGED <<res, results_log, current_load_mw, is_safe, trafo_loading,
                 voltage_pu, retval, state, profile, n_runpp, n_converged, calls>>

\* Line 85, pp.runpp converges with one of the readings rs.
RunppReturns(rs) ==
  /\ pc = "runpp"
  /\ \E r \in rs : res' = <<r>>
  /\ n_runpp' = n_runpp + 1
  /\ n_converged' = n_converged + 1
  /\ pc' = "log"
  /\ UNCHANGED <<net, results_log, current_load_mw, is_safe, trafo_loading,
                 voltage_pu, retval, state, profile, n_setload, calls>>

RunppConverged == RunppReturns(Readings(profile))

\* Lines 86-88: the handler of LoadflowNotConverged prints and breaks.
HandleNotConvergedLogging(log) ==
  [pc |-> "return", state |-> "StoppedAtDivergence",
   results_log |-> Append(log, [Load_kW |-> FZero, Trafo_Load_Pct |-> FZero,
                                Voltage_PU |-> FZero])]
HandleNotConverged(log) ==
  [pc |-> "return", state |-> "StoppedAtDivergence", results_log |-> log]

\* Lines 85-88, pp.runpp raises LoadflowNotConverged.
RunppDiverged ==
  /\ pc = "runpp"
  /\ n_runpp' = n_runpp + 1
  /\ LET h == HandleNotConverged(results_log) IN
       /\ state' = h.state
       /\ pc' = h.pc
       /\ results_log' = h.results_log
  /\ UNCHANGED <<net, res, current_load_mw, is_safe, trafo_loading,
                 voltage_pu, retval, profile, n_converged, n_setload, calls>>

\* Lines 95-99.
LogRecordSafeOnly(log, load, tl, v) ==
  IF FLeq(CRITICAL_LOADING_PERCENT, tl) \/ FLeq(v, CRITICAL_VOLTAGE_LIMIT_PU)
    THEN log
    ELSE Append(log, [Load_kW |-> FMul(load, KW_PER_MW),
                      Trafo_Load_Pct |-> tl,
                      Voltage_PU |-> v])
LogRecord(log, load, tl, v) ==
  Append(log, [Load_kW |-> FMul(load, KW_PER_MW),
               Trafo_Load_Pct |-> tl,
               Voltage_PU |-> v])

\* Lines 91-99.
LogData ==
  /\ pc = "log"
  /\ trafo_loading' = res[1].loading_percent
  /\ voltage_pu' = res[1].vm_pu
  /\ results_log' = LogRecord(results_log, current_load_mw,
                              res[1].loading_percent, res[1].vm_pu)
  /\ pc' = "check"
  /\ UNCHANGED <<net, res, current_load_mw, is_safe, retval, state, profile,
                 n_runpp, n_converged, n_setload, calls>>

\* Lines 102-109: the verdict on one solved step.
SafetyVerdictVoltageFirst(tl, v) ==
  IF FLeq(v, CRITICAL_VOLTAGE_LIMIT_PU) THEN "StoppedAtUndervoltage"
  ELSE IF FLeq(CRITICAL_LOADING_PERCENT, tl) THEN "StoppedAtOverload"
  ELSE "Searching"
SafetyVerdictThermalOnly(tl, v) ==
  IF FLeq(CRITICAL_LOADING_PERCENT, tl) THEN "StoppedAtOverload"
  ELSE "Searching"
SafetyVerdictStrict(tl, v) ==
  IF FLess(CRITICAL_LOADING_PERCENT, tl) THEN "StoppedAtOverload"
  ELSE IF FLess(v, CRITICAL_VOLTAGE_LIMIT_PU) THEN "StoppedAtUndervoltage"
  ELSE "Searching"
SafetyVerdict(tl, v) ==
  IF FLeq(CRITICAL_LOADING_PERCENT, tl) THEN "StoppedAtOverload"
  ELSE IF FLeq(v, CRITICAL_VOLTAGE_LIMIT_PU) THEN "StoppedAtUndervoltage"
  ELSE "Searching"

\* Line 109.
Advance(load) == FAdd(load, step_mw)

CheckSafety ==
  /\ pc = "check"
  /\ LET verdict == SafetyVerdict(trafo_loading, voltage_pu) IN
       /\ state' = verdict
       /\ IF verdict = "Searching"
            THEN is_safe' = is_safe /\ current_load_mw' = Advance(current_load_mw)
            ELSE is_safe' = FALSE /\ current_load_mw' = current_load_mw
  /\ pc' = "while"
  /\ UNCHANGED <<net, res, results_log, trafo_loading, voltage_pu, retval,
                 profile, n_runpp, n_converged, n_setload, calls>>

\* pd.DataFrame(list of dicts): one row per dict, columns from the keys.
DataFrame(log) ==
  [columns |-> IF log = <<>> THEN <<>>
               ELSE <<"Load_kW", "Trafo_Load_Pct", "Voltage_PU">>,
   rows    |-> [i \in 1..Len(log) |->
                  <<log[i].Load_kW, log[i].Trafo_Load_Pct, log[i].Voltage_PU>>]]

\* Line 111.
ReturnValueWithState(log, st) == <<DataFrame(log), st>>
ReturnValueDropLast(log, st) ==
  <<DataFrame(IF log = <<>> THEN log ELSE SubSeq(log, 1, Len(log) - 1))>>
ReturnValue(log, st) == <<DataFrame(log)>>

Return ==
  /\ pc = "return"
  /\ retval' = ReturnValue(results_log, state)
  /\ pc' = "done"
  /\ UNCHANGED <<net, res, results_log, current_load_mw, is_safe, trafo_loading,
                 voltage_pu, state, profile, n_runpp, n_converged, n_setload,
                 calls>>

Next ==
  \/ Call
  \/ LoopTest
  \/ UpdateLoad
  \/ RunppConverged
  \/ RunppDiverged
  \/ LogData
  \/ CheckSafety
  \/ Return

Spec == Init /\ [][Next]_vars

PcValues == {"idle", "while", "update", "runpp", "log", "check", "return", "done"}

\* The interpreter keeps running the single thread and every pp.runpp call
\* comes back: control does not stay at one statement forever.  Each step of
\* Next moves pc, so this is weak fairness of Next, stated on pc alone.
Proceeds == pc # "done" /\ pc' \in PcValues \ {pc}

FairSpec == Spec /\ WF_pc(Proceeds)

(***************************************************************************)
(* run_stress_test called again on the same instance (nothing in the class *)
(* forbids it): the locals start afresh, self.net and self.results_log are *)
(* the instance's.  To keep the calls short the branch here reaches a      *)
(* limit or diverges after at most MaxSafeSteps within-limits steps.       *)
(***************************************************************************)
MaxCalls == 2
MaxSafeSteps == 2

\* Lines 75-77, on an instance whose earlier call has returned.
CallAgain ==
  /\ pc = "done"
  /\ calls < MaxCalls
  /\ current_load_mw' = FZero
  /\ is_safe' = TRUE
  /\ state' = "Searching"
  /\ pc' = "while"
  /\ calls' = calls + 1
  /\ retval' = <<>>
  /\ n_runpp' = 0
  /\ n_converged' = 0
  /\ n_setload' = 0
  /\ UNCHANGED <<net, res, results_log, trafo_loading, voltage_pu, profile>>

RunppConvergedShort ==
  RunppReturns(IF n_converged < MaxSafeSteps
                 THEN Readings(profile)
                 ELSE Readings(profile) \ {profile})

NextRecall ==
  \/ Call
  \/ CallAgain
  \/ LoopTest
  \/ UpdateLoad
  \/ RunppConvergedShort
  \/ RunppDiverged
  \/ LogData
  \/ CheckSafety
  \/ Return

SpecRecall == Init /\ [][NextRecall]_vars

TypeOK ==
  /\ pc \in PcValues
  /\ state \in {"NotStarted", "Searching"} \cup TerminalStates
  /\ is_safe \in BOOLEAN
  /\ Len(res) <= 1 /\ Len(retval) <= 1
  /\ n_converged <= n_runpp

(***************************************************************************)
(* Properties.                                                             *)
(***************************************************************************)
Last(s) == s[Len(s)]

\* The limits and the grid of the search as the specification states them.
LoadingLimit == FromInt(98)
VoltageLimit == FDivSmall(FromInt(95), 100)
CeilingMW == FromInt(5)
CeilingKW == FromInt(5000)
StepKW == FromInt(20)
StepMW == FDivSmall(FromInt(2), 100)
MaxSolverCalls == (5000 \div 20) + 1

Overloaded(r) == FLeq(LoadingLimit, r.Trafo_Load_Pct)
Undervolted(r) == FLeq(r.Voltage_PU, VoltageLimit)

\* b is exactly a + k: the exact sum is a float and it is b.
ExactlyPlus(a, k, b) ==
  LET s == FSumExact(a, k) IN
    IF a.m = <<>> THEN b = k
    ELSE ~FInexact(s.m) /\ FRound(s.m, s.e, FALSE) = b

\* C1: every call of run_stress_test terminates; once the loop is left the
\* search is in one of the four terminal states; the solver is invoked at
\* most ceiling/step + 1 = 251 times in a run.
C1_TerminatesBounded ==
  /\ <>(pc = "done")
  /\ [](pc \in {"return", "done"} => state \in TerminalStates)
  /\ [](n_runpp <= MaxSolverCalls)

C1_Witness ==
  pc = "done" /\ state = "StoppedAtSimulationCeiling" /\ n_runpp = MaxSolverCalls

\* C2: the Load_kW of the log's records is strictly increasing, starts at
\* 0 kW, and each record's Load_kW is exactly 20 kW above the previous one.
C2_ExactStep ==
  \A i \in 1..Len(results_log) :
    IF i = 1 THEN results_log[i].Load_kW = FZero
    ELSE /\ FLess(results_log[i - 1].Load_kW, results_log[i].Load_kW)
         /\ ExactlyPlus(results_log[i - 1].Load_kW, StepKW, results_log[i].Load_kW)

\* C3: the solver is never invoked, and no record appended, with a load
\* above the 5000 kW ceiling; the load never passes ceiling + one step; a
\* load above the ceiling stops the run at the ceiling with no setLoad, no
\* solve and no record.
C3_CeilingRespected ==
  /\ [](pc = "runpp" => FLeq(net.load.p_mw, CeilingMW))
  /\ [](\A i \in 1..Len(results_log) : FLeq(results_log[i].Load_kW, CeilingKW))
  /\ [](FLeq(current_load_mw, FAdd(CeilingMW, StepMW)))
  /\ [][(pc = "while" /\ FLess(CeilingMW, current_load_mw)) =>
          /\ state' = "StoppedAtSimulationCeiling"
          /\ pc' = "return"
          /\ net' = net /\ n_runpp' = n_runpp /\ results_log' = results_log]_vars

C3_Witness ==
  /\ pc = "return" /\ state = "StoppedAtSimulationCeiling"
  /\ FLess(CeilingMW, current_load_mw)
  /\ n_runpp = MaxSolverCalls

\* C4: once the step at the last load not above 5.0 MW has been solved with
\* no limit fired (and none, nor a divergence, before it), the run ends in
\* StoppedAtSimulationCeiling.
C4_AtCeiling ==
  /\ pc = "check"
  /\ FLeq(current_load_mw, CeilingMW)
  /\ FLess(CeilingMW, FAdd(current_load_mw, StepMW))
  /\ ~Overloaded(Last(results_log)) /\ ~Undervolted(Last(results_log))

C4_ReachesCeiling ==
  C4_AtCeiling ~> (pc = "done" /\ state = "StoppedAtSimulationCeiling")

C4_Witness ==
  /\ pc = "done" /\ state = "StoppedAtSimulationCeiling"
  /\ FLess(CeilingMW, FAdd(net.load.p_mw, StepMW))
  /\ ~Overloaded(Last(results_log)) /\ ~Undervolted(Last(results_log))

\* C5: a solved step whose reading has both loading >= 98.0 and voltage
\* <= 0.95 stops the run in StoppedAtOverload, never StoppedAtUndervoltage.
C5_ThermalFirst ==
  /\ [][(pc = "check" /\ Overloaded(Last(results_log))
                      /\ Undervolted(Last(results_log)))
          => state' = "StoppedAtOverload"]_vars
  /\ []((pc \in {"while", "return", "done"} /\ results_log # <<>>
           /\ Overloaded(Last(results_log)) /\ Undervolted(Last(results_log)))
          => state = "StoppedAtOverload")

C5_Witness ==
  /\ pc = "done" /\ state = "StoppedAtOverload"
  /\ Overloaded(Last(results_log)) /\ Undervolted(Last(results_log))

\* C6: a solver call that does not converge moves the run to
\* StoppedAtDivergence and on to the return statement, leaves the log as it
\* was, and the log then holds one record per earlier converged call.
C6_DivergenceHandled ==
  /\ [][(pc = "runpp" /\ n_runpp' = n_runpp + 1 /\ n_converged' = n_converged)
          => /\ state' = "StoppedAtDivergence"
             /\ pc' = "return"
             /\ results_log' = results_log]_vars
  /\ [](state = "StoppedAtDivergence"
          => /\ pc \in {"return", "done"}
             /\ Len(results_log) = n_converged
             /\ n_runpp = n_converged + 1)

C6_Witness ==
  /\ pc = "done" /\ state = "StoppedAtDivergence"
  /\ Len(retval) = 1
  /\ Len(results_log) = 2

\* C7: every converged solver call appends exactly one record, holding the
\* load set for that call in kW and the call's loading and voltage, also
\* when that reading fires a limit; the log length is the number of
\* converged calls (less the one whose record is about to be appended).
C7_OneRecordPerSolve ==
  /\ [][pc = "log" =>
          results_log' = Append(results_log,
                                [Load_kW |-> FMul(net.load.p_mw, FromInt(1000)),
                                 Trafo_Load_Pct |-> res[1].loading_percent,
                                 Voltage_PU |-> res[1].vm_pu])]_vars
  /\ [][pc # "log" => results_log' = results_log]_vars
  /\ [](Len(results_log) = n_converged - (IF pc = "log" THEN 1 ELSE 0))

C7_Witness ==
  /\ pc = "done" /\ state = "StoppedAtOverload"
  /\ Len(results_log) = 3 /\ n_converged = 3
  /\ Last(results_log).Trafo_Load_Pct = FromInt(99)
  /\ Last(results_log).Load_kW = FromInt(40)

C9_EmptyOnlyOnFirstDivergence ==
  pc = "done" =>
    ((retval[1].rows = <<>>) <=>
       (state = "StoppedAtDivergence" /\ n_runpp = 1 /\ net.load.p_mw = FZero))

C9_Witness ==
  pc = "done" /\ retval[1].rows = <<>> /\ state = "StoppedAtDivergence"

\* C10: the verdict on a solved step uses inclusive thresholds: loading
\* >= 98.0 gives StoppedAtOverload; loading < 98.0 with voltage <= 0.95 gives
\* StoppedAtUndervoltage; loading < 98.0 with voltage > 0.95 stays Searching.
C10_InclusiveThresholds ==
  [][pc = "check" =>
       LET r == Last(results_log) IN
         /\ FLeq(LoadingLimit, r.Trafo_Load_Pct) => state' = "StoppedAtOverload"
         /\ (FLess(r.Trafo_Load_Pct, LoadingLimit) /\ FLeq(r.Voltage_PU, VoltageLimit))
              => state' = "StoppedAtUndervoltage"
         /\ (FLess(r.Trafo_Load_Pct, LoadingLimit) /\ FLess(VoltageLimit, r.Voltage_PU))
              => state' = "Searching"]_vars

C10_Witness ==
  /\ pc = "done" /\ state = "StoppedAtUndervoltage"
  /\ Last(results_log).Voltage_PU = VoltageLimit
  /\ FLess(Last(results_log).Trafo_Load_Pct, LoadingLimit)

\* C11: terminal states are absorbing within a run: once the search has
\* stopped, no load update, no solver call and no record append happens, and
\* the current load is not advanced.
C11_TerminalAbsorbing ==
  [][(state \in TerminalStates) =>
       (/\ state' = state
        /\ net' = net /\ n_setload' = n_setload
        /\ n_runpp' = n_runpp
        /\ results_log' = results_log
        /\ current_load_mw' = current_load_mw)]_vars

C11_Witness ==
  /\ pc = "done" /\ state = "StoppedAtUndervoltage"
  /\ n_runpp = 3 /\ n_setload = 3 /\ Len(results_log) = 3

\* The current load in kW, as line 96 computes it.
KW(load) == FMul(load, FromInt(1000))

WithinLimits(r) == ~Overloaded(r) /\ ~Undervolted(r)

\* C12: the run starts in Searching at load 0; a solved step that fires no
\* limit has appended exactly one record, leaves the state Searching and
\* advances the load by exactly one step of 20 kW (0 -> 0.02 MW at the start).
C12_SafeStepAdvances ==
  /\ []((pc = "while" /\ n_setload = 0)
          => (state = "Searching" /\ current_load_mw = FZero))
  /\ []((pc = "check") => Len(results_log) = n_converged)
  /\ [][(pc = "check" /\ WithinLimits(Last(results_log))) =>
          (/\ state' = "Searching"
           /\ results_log' = results_log
           /\ (current_load_mw = FZero => current_load_mw' = StepMW)
           /\ ExactlyPlus(KW(current_load_mw), StepKW, KW(current_load_mw')))]_vars

\* C13: load updates and solver calls strictly alternate, update first:
\* every solver call is made right after an update that set the current
\* load, every update is followed by a solver call before the next update,
\* and the record appended for a step carries the load that was set for it.
C13_SetLoadSolveAlternate ==
  /\ [](n_setload = n_runpp + (IF pc = "runpp" THEN 1 ELSE 0))
  /\ [](pc = "runpp" => net.load.p_mw = current_load_mw)
  /\ [][(pc' = "runpp") => (pc = "update" /\ n_setload' = n_setload + 1)]_vars
  /\ [][(n_runpp' # n_runpp) => (pc = "runpp" /\ n_runpp' = n_runpp + 1)]_vars
  /\ [][(pc = "runpp") => (n_runpp' = n_runpp + 1 /\ n_setload' = n_setload)]_vars
  /\ [][(results_log' # results_log) =>
          Last(results_log').Load_kW = KW(net.load.p_mw)]_vars

C13_Witness ==
  /\ pc = "check" /\ n_setload = 3 /\ n_runpp = 3
  /\ net.load.p_mw = current_load_mw
  /\ Last(results_log).Load_kW = FromInt(40)

\* The reactive share of the load as the specification states it.
QFactor == FDivSmall(FromInt(329), 1000)

\* C14: whenever the solver is invoked the load's q_mvar is its p_mw times
\* 0.329 (the float product) and p_mw is not negative.
C14_ReactivePower ==
  pc = "runpp" =>
    /\ net.load.q_mvar = FMul(net.load.p_mw, QFactor)
    /\ FLeq(FZero, net.load.p_mw)

C14_Witness ==
  /\ pc = "runpp" /\ n_setload = 3
  /\ net.load.p_mw = FAdd(StepMW, StepMW)
  /\ net.load.q_mvar # FZero

\* C15: a run changes nothing of the network but the load's p_mw and
\* q_mvar, and updates the load exactly once per iteration of the search.
C15_OnlyLoadChanges ==
  /\ []([net EXCEPT !.load.p_mw = FZero, !.load.q_mvar = FZero] = BuildNetwork)
  /\ [][(net' # net) => pc = "update"]_vars
  /\ [][(pc = "update") => n_setload' = n_setload + 1]_vars
  /\ [][(pc # "update") => n_setload' = n_setload]_vars
  /\ [](pc \in {"while", "return", "done"} => n_setload = n_runpp)

C15_Witness ==
  /\ pc = "done" /\ n_setload = 2
  /\ net.load.p_mw = StepMW
  /\ net.load.q_mvar = FMul(StepMW, QFactor)
  /\ net.trafo = BuildNetwork.trafo /\ net.line = BuildNetwork.line

\* C16: when a run ends in StoppedAtDivergence with a non-empty log, the
\* last record is within both limits and its load is exactly one step
\* (20 kW) below the load at which the solver diverged.
C16_LastSafeLoad ==
  (state = "StoppedAtDivergence" /\ results_log # <<>>) =>
    /\ WithinLimits(Last(results_log))
    /\ ExactlyPlus(Last(results_log).Load_kW, StepKW, KW(net.load.p_mw))

\* A returned row as a record.
RowRecord(row) ==
  [Load_kW |-> row[1], Trafo_Load_Pct |-> row[2], Voltage_PU |-> row[3]]

\* C17: the log returned by every call, also a repeated one on the same
\* instance, holds one record per converged solver call of that call, ordered
\* by load from load 0; records in the log are never changed or removed.
C17_LogPerCall ==
  /\ [](pc = "done" =>
          LET rows == retval[1].rows IN
            /\ Len(rows) = n_converged
            /\ (rows # <<>> => rows[1][1] = FZero)
            /\ \A i \in 1..Len(rows) : \A j \in 1..Len(rows) :
                 i < j => FLess(rows[i][1], rows[j][1]))
  /\ [][/\ Len(results_log') >= Len(results_log)
        /\ SubSeq(results_log', 1, Len(results_log)) = results_log]_vars

\* C18: on a fresh instance every record but possibly the last is within
\* both limits: at most one record breaches a limit, and it is the last.
C18_OnlyLastMayBreach ==
  \A i \in 1..Len(results_log) :
    i < Len(results_log) => WithinLimits(results_log[i])

C18_Witness ==
  /\ pc = "done" /\ Len(results_log) = 3
  /\ Undervolted(Last(results_log)) /\ ~Overloaded(Last(results_log))
  /\ WithinLimits(results_log[1]) /\ WithinLimits(results_log[2])

\* The terminal state read off a returned log, as the claim gives it.
StateOfLog(rows) ==
  IF rows = <<>> THEN "StoppedAtDivergence"
  ELSE LET r == RowRecord(Last(rows)) IN
         IF Overloaded(r) THEN "StoppedAtOverload"
         ELSE IF Undervolted(r) THEN "StoppedAtUndervoltage"
         ELSE IF r.Load_kW = CeilingKW THEN "StoppedAtSimulationCeiling"
         ELSE "StoppedAtDivergence"

\* C19: for a run on a fresh instance the terminal state is a function of
\* the returned log: last record over the thermal limit => Overload; only
\* under the voltage limit => Undervoltage; within limits at 5000 kW =>
\* SimulationCeiling; otherwise, the empty log included => Divergence.
C19_StateFromLog ==
  pc = "done" => state = StateOfLog(retval[1].rows)
====
